---- MODULE Spec2Model ----
(***************************************************************************)
(* PyCircleSim core: the agent's action scheduler and balance ledger       *)
(* (framework/agents/base_agent.py), the caching execution context         *)
(* (framework/core/context.py) and the iteration driver                    *)
(* (framework/simulation/base.py).                                         *)
(*                                                                         *)
(* Every method is a pure operator over the object's fields (a record      *)
(* named self), applied by one action; `op` holds the last call, its       *)
(* arguments and what it returned.  Collaborators that are not part of     *)
(* these files (the agent profile, the network builder and evolver, the    *)
(* data collector, the generator passed to the cache) are oracles: the     *)
(* action that calls them draws their answer from a small set.             *)
(***************************************************************************)
EXTENDS Integers, Sequences, FiniteSets, TLC

VARIABLES
    agent,      \* BaseAgent: accounts, state['balances-*'], action tracking
    profile,    \* AgentProfile: max_daily_actions, action_configs, risk_tolerance
    clock,      \* the day datetime.now() falls on
    contexts,   \* SimulationContext objects: context -> self.iteration
    cache,      \* the iteration_cache dict every context holds as self._cache
    calls,      \* how often the generator of each (key, iteration) has run
    address_to_agent, \* agent_manager.address_to_agent.keys(), in insertion order
    writer,     \* cache key -> the context whose call stored the entry
    evaluations, \* how often the filter of each (cache key, iteration) has run
    callers,    \* get_or_cache calls under way: context -> line reached, locals
    overlapped, \* the (key, iteration) pairs on which two calls were under way at once
    sim,        \* BaseSimulation: config, iteration_stats, where run() stands
    op          \* the last call: name, arguments, result

agentVars == <<agent, profile, clock>>

cacheVars == <<contexts, cache, calls, address_to_agent, writer, evaluations,
               callers, overlapped>>

vars == <<agent, profile, clock, contexts, cache, calls, address_to_agent, writer,
          evaluations, callers, overlapped, sim, op>>

---------------------------------------------------------------------------
(* Bounds and input sets *)

MaxHistory == 3         \* successful record_action calls per run
MaxLedger == 2          \* balance records per run
MaxBalance == 1         \* balances reported, 0..MaxBalance
MaxCalls == 3           \* generator runs per (key, iteration)
MaxBlockNumber == 31    \* block numbers in cache identifiers, 0..MaxBlockNumber
MaxIterations == 3      \* largest config.iterations

Addresses == {"0xA", "0xB"}
Contracts == {"hub", "wxdai"}
ActionNames == {"trust", "mint"}      \* names record_action is called with
Configured == {"trust", "mint"}       \* profile.action_configs.keys()
Blocks == {4, 9}                      \* block numbers passed in
Stamps == {<<50, 4>>, <<60, 9>>}      \* (timestamp, block) passed to update_balance
ContextIds == {"c1", "c2"}            \* contexts alive at the same time
Iterations == {1, 2}                  \* iteration numbers contexts are made with
BaseKeys == {"x", "x_iter_1"}         \* keys passed to the cache methods
Values == {<< >>, <<0>>, <<7>>}       \* generator results: None, falsy, truthy
ManagedAddresses == {10, 11}          \* addresses the agent manager holds, 0xA and 0xB
AgentIds == {"a1", "agent_12345", "agent_12399"}
Days == {1, 2}                        \* the days the clock runs through
Quotas == {1, 2}                      \* values of profile.max_daily_actions

None == << >>                         \* Python's None
Some(v) == <<v>>                      \* a value where None is possible

---------------------------------------------------------------------------
(* dict helpers *)

DictGet(d, k, default) == IF k \in DOMAIN d THEN d[k] ELSE default

DictSet(d, k, v) == [x \in (DOMAIN d) \cup {k} |-> IF x = k THEN v ELSE d[x]]

EmptyDict == [x \in {} |-> 0]

\* datetime.now().date().isoformat() for a day of January 2025
IsoFormat(day) == "2025-01-" \o (IF day < 10 THEN "0" ELSE "") \o ToString(day)

---------------------------------------------------------------------------
(* BaseAgent *)

\* __init__: preset addresses become accounts; ledger and tracking start empty
NewAgent(preset_addresses) ==
    [ accounts             |-> preset_addresses,
      balances_ERC20       |-> EmptyDict,
      balances_history     |-> << >>,
      last_actions         |-> EmptyDict,
      daily_action_counts  |-> EmptyDict,
      action_history       |-> << >> ]

\* create_account2 / create_account without preset addresses: a fresh address
create_account(self, address) == [self EXCEPT !.accounts = @ \cup {address}]

\* a record_action that counts failed attempts as well
record_action_counting_failures(self, action_name, block_number, success, today) ==
    [self EXCEPT
        !.last_actions = IF success THEN DictSet(@, action_name, block_number) ELSE @,
        !.daily_action_counts = DictSet(@, IsoFormat(today), DictGet(@, IsoFormat(today), 0) + 1),
        !.action_history = IF success THEN Append(@, <<action_name, block_number>>) ELSE @]

\* a record_action that keeps the cooldown mark of the recorded action only
record_action_forgetting_others(self, action_name, block_number, success, today) ==
    IF success
    THEN [self EXCEPT
            !.last_actions = DictSet(EmptyDict, action_name, block_number),
            !.daily_action_counts =
                DictSet(@, IsoFormat(today), DictGet(@, IsoFormat(today), 0) + 1),
            !.action_history = Append(@, <<action_name, block_number>>)]
    ELSE self

\* a record_action that notes the block of a failed attempt as well
record_action_marking_failures(self, action_name, block_number, success, today) ==
    [self EXCEPT
        !.last_actions = DictSet(@, action_name, block_number),
        !.daily_action_counts =
            IF success THEN DictSet(@, IsoFormat(today), DictGet(@, IsoFormat(today), 0) + 1)
            ELSE @,
        !.action_history = IF success THEN Append(@, <<action_name, block_number>>) ELSE @]

record_action(self, action_name, block_number, success, today) ==
    IF success
    THEN [self EXCEPT
            !.last_actions = DictSet(@, action_name, block_number),
            !.daily_action_counts =
                DictSet(@, IsoFormat(today), DictGet(@, IsoFormat(today), 0) + 1),
            !.action_history = Append(@, <<action_name, block_number>>)]
    ELSE self

\* get_random_account: the (address, key) pairs random.choice can draw
get_random_account(self) == self.accounts

\* profile.get_action_config(name): the configuration, or None
get_action_config(prof, action_name) ==
    IF action_name \in DOMAIN prof.action_configs
    THEN Some(prof.action_configs[action_name]) ELSE None

_get_base_params(self, prof, action_name, acting_address) ==
    IF get_action_config(prof, action_name) = None
    THEN EmptyDict
    ELSE [sender |-> acting_address, risk_tolerance |-> prof.risk_tolerance]

\* what select_action can do: return a triple, or let an exception escape
NoAction == [raised |-> FALSE, action_name |-> None, acting_address |-> "", params |-> EmptyDict]

Escaped == [raised |-> TRUE, action_name |-> None, acting_address |-> "", params |-> EmptyDict]

\* random.choices(population, weights): any member of positive weight
WeightedChoices(available, prof) ==
    {a \in available : prof.action_configs[a].probability > 0}

\* a select_action that looks for eligible actions before it looks at the quota
select_action_quota_last(self, prof, current_block, today, verdict) ==
    LET available == {a \in DOMAIN prof.action_configs : verdict[a] = "yes"} IN
    IF \E a \in DOMAIN prof.action_configs : verdict[a] = "raise" THEN {Escaped}
    ELSE IF available # {} /\ WeightedChoices(available, prof) # {} /\ self.accounts # {}
    THEN { [raised |-> FALSE, action_name |-> Some(a), acting_address |-> addr,
            params |-> _get_base_params(self, prof, a, addr)] :
           a \in WeightedChoices(available, prof), addr \in get_random_account(self) }
    ELSE {NoAction}

\* select_action: the set of outcomes the random draws allow.  verdict[a] is
\* what profile.can_perform_action(a, current_block, last block of a or 0)
\* answers: "yes", "no", or "raise" when it throws.
select_action(self, prof, current_block, today, verdict) ==
    IF DictGet(self.daily_action_counts, IsoFormat(today), 0) >= prof.max_daily_actions
    THEN {NoAction}
    ELSE IF \E a \in DOMAIN prof.action_configs : verdict[a] = "raise"
    THEN {Escaped}                  \* no try/except around the loop
    ELSE LET available == {a \in DOMAIN prof.action_configs : verdict[a] = "yes"} IN
         IF available = {} THEN {NoAction}
         ELSE IF WeightedChoices(available, prof) = {}
         THEN {Escaped}             \* random.choices: total of weights is zero
         ELSE IF get_random_account(self) = {} THEN {NoAction}
         ELSE { [raised |-> FALSE, action_name |-> Some(a), acting_address |-> addr,
                 params |-> _get_base_params(self, prof, a, addr)] :
                a \in WeightedChoices(available, prof),
                addr \in get_random_account(self) }

\* a can_perform_action without the try/except around its body
can_perform_action_unguarded(self, prof, action_name, current_block, lookup, verdict) ==
    IF lookup = "raise"
    THEN [raised |-> TRUE, result |-> FALSE, asked |-> None]
    ELSE IF get_action_config(prof, action_name) = None
    THEN [raised |-> FALSE, result |-> FALSE, asked |-> None]
    ELSE [raised |-> verdict = "raise", result |-> verdict = "yes",
          asked |-> Some(<<action_name, current_block,
                           DictGet(self.last_actions, action_name, 0)>>)]

\* can_perform_action; lookup tells whether profile.get_action_config
\* returns ("ok") or raises, verdict is what profile.can_perform_action does
\* when it is asked; asked holds the arguments it was asked with
can_perform_action(self, prof, action_name, current_block, lookup, verdict) ==
    IF lookup = "raise"
    THEN [raised |-> FALSE, result |-> FALSE, asked |-> None]
    ELSE IF get_action_config(prof, action_name) = None
    THEN [raised |-> FALSE, result |-> FALSE, asked |-> None]
    ELSE [raised |-> FALSE, result |-> verdict = "yes",
          asked |-> Some(<<action_name, current_block,
                           DictGet(self.last_actions, action_name, 0)>>)]

\* an update_balance that stores whatever it is given
update_balance_storing_zero(self, account, contract, balance, timestamp, block) ==
    IF account \notin self.accounts THEN self
    ELSE LET cur == IF account \in DOMAIN self.balances_ERC20
                    THEN self.balances_ERC20
                    ELSE DictSet(self.balances_ERC20, account, EmptyDict) IN
         [self EXCEPT
            !.balances_ERC20 = DictSet(cur, account, DictSet(cur[account], contract, balance)),
            !.balances_history = Append(@, [contract |-> contract, account |-> account,
                                            balance |-> balance, timestamp |-> timestamp,
                                            block |-> block])]

\* an update_balance that drops every zero balance
update_balance_dropping_zero(self, account, contract, balance, timestamp, block) ==
    IF account \notin self.accounts \/ balance = 0 THEN self
    ELSE update_balance_storing_zero(self, account, contract, balance, timestamp, block)

\* an update_balance that does not look at who controls the account
update_balance_any_account(self, account, contract, balance, timestamp, block) ==
    LET cur == IF account \in DOMAIN self.balances_ERC20
               THEN self.balances_ERC20
               ELSE DictSet(self.balances_ERC20, account, EmptyDict) IN
    IF balance > 0 \/ contract \in DOMAIN cur[account]
    THEN [self EXCEPT
            !.balances_ERC20 = DictSet(cur, account, DictSet(cur[account], contract, balance)),
            !.balances_history = Append(@, [contract |-> contract, account |-> account,
                                            balance |-> balance, timestamp |-> timestamp,
                                            block |-> block])]
    ELSE [self EXCEPT !.balances_ERC20 = cur]

\* an update_balance that puts the new record in front of the history
update_balance_newest_first(self, account, contract, balance, timestamp, block) ==
    IF account \notin self.accounts THEN self
    ELSE LET cur == IF account \in DOMAIN self.balances_ERC20
                    THEN self.balances_ERC20
                    ELSE DictSet(self.balances_ERC20, account, EmptyDict) IN
         IF balance > 0 \/ contract \in DOMAIN cur[account]
         THEN [self EXCEPT
                !.balances_ERC20 =
                    DictSet(cur, account, DictSet(cur[account], contract, balance)),
                !.balances_history =
                    <<[contract |-> contract, account |-> account,
                       balance |-> balance, timestamp |-> timestamp,
                       block |-> block]>> \o @]
         ELSE [self EXCEPT !.balances_ERC20 = cur]

update_balance(self, account, contract, balance, timestamp, block) ==
    IF account \notin self.accounts THEN self
    ELSE LET cur == IF account \in DOMAIN self.balances_ERC20
                    THEN self.balances_ERC20
                    ELSE DictSet(self.balances_ERC20, account, EmptyDict) IN
         IF balance > 0 \/ contract \in DOMAIN cur[account]
         THEN [self EXCEPT
                !.balances_ERC20 =
                    DictSet(cur, account, DictSet(cur[account], contract, balance)),
                !.balances_history =
                    Append(@, [contract |-> contract, account |-> account,
                               balance |-> balance, timestamp |-> timestamp,
                               block |-> block])]
         ELSE [self EXCEPT !.balances_ERC20 = cur]

get_last_balance(self, account, contract) ==
    LET held == DictGet(self.balances_ERC20, account, EmptyDict) IN
    IF contract \in DOMAIN held THEN Some(held[contract]) ELSE None

\* get_balance_history: account / contract None means "do not filter"
get_balance_history(self, account, contract) ==
    LET Keep(h) == /\ (account = None \/ Some(h.account) = account)
                   /\ (contract = None \/ Some(h.contract) = contract)
    IN SelectSeq(self.balances_history, Keep)

---------------------------------------------------------------------------
(* SimulationContext *)

BlockRangeWidth == 10

ShortIdLength == 8

\* s[:n]
Prefix(s, n) == IF Len(s) <= n THEN s ELSE SubSeq(s, 1, n)

\* a get_cache_key that keys block data by the exact block
get_cache_key_exact_block(base_key, identifiers) ==
    IF identifiers = None \/ DOMAIN identifiers = {} THEN base_key
    ELSE IF "block" \in DOMAIN identifiers
    THEN base_key \o "_block_" \o ToString(identifiers.block)
    ELSE IF "agent_id" \in DOMAIN identifiers
    THEN base_key \o "_agent_" \o Prefix(identifiers.agent_id, ShortIdLength)
    ELSE base_key

\* get_cache_key: identifiers is None or a dict
get_cache_key(base_key, identifiers) ==
    IF identifiers = None \/ DOMAIN identifiers = {} THEN base_key
    ELSE IF "block" \in DOMAIN identifiers
    THEN base_key \o "_block_" \o ToString(identifiers.block \div BlockRangeWidth)
    ELSE IF "agent_id" \in DOMAIN identifiers
    THEN base_key \o "_agent_" \o Prefix(identifiers.agent_id, ShortIdLength)
    ELSE base_key

\* f"{key}_iter_{self.iteration}"
iteration_key(key, iteration) == key \o "_iter_" \o ToString(iteration)

\* bool(value)
Truthy(value) == value # None /\ value # <<0>>

\* a get_or_cache that takes a falsy stored value for a miss
get_or_cache_if_truthy(iteration, _cache, key, produced) ==
    IF iteration_key(key, iteration) \in DOMAIN _cache
       /\ Truthy(_cache[iteration_key(key, iteration)])
    THEN [cache |-> _cache, result |-> _cache[iteration_key(key, iteration)],
          called |-> FALSE]
    ELSE [cache |-> DictSet(_cache, iteration_key(key, iteration), produced),
          result |-> produced, called |-> TRUE]

\* a get_or_cache that leaves the iteration out of the key
get_or_cache_any_iteration(iteration, _cache, key, produced) ==
    IF key \in DOMAIN _cache
    THEN [cache |-> _cache, result |-> _cache[key], called |-> FALSE]
    ELSE [cache |-> DictSet(_cache, key, produced), result |-> produced, called |-> TRUE]

\* a get_or_cache that runs the generator on every call
get_or_cache_always_computing(iteration, _cache, key, produced) ==
    [cache |-> DictSet(_cache, iteration_key(key, iteration), produced),
     result |-> produced, called |-> TRUE]

\* get_or_cache of a context of the given iteration; produced is what
\* generator_func() returns when it is called
get_or_cache(iteration, _cache, key, produced) ==
    IF iteration_key(key, iteration) \in DOMAIN _cache
    THEN [cache |-> _cache, result |-> _cache[iteration_key(key, iteration)],
          called |-> FALSE]
    ELSE [cache |-> DictSet(_cache, iteration_key(key, iteration), produced),
          result |-> produced, called |-> TRUE]

\* get_or_cache, lines 89-92: the membership test; a hit returns the entry
get_or_cache_check(iteration, _cache, key) ==
    IF iteration_key(key, iteration) \in DOMAIN _cache
    THEN [hit |-> TRUE, result |-> _cache[iteration_key(key, iteration)]]
    ELSE [hit |-> FALSE, result |-> None]

\* a store that leaves the iteration out of the key
get_or_cache_store_raw_key(iteration, _cache, key, result) ==
    DictSet(_cache, key, result)

\* get_or_cache, line 96: the store once generator_func() has returned
get_or_cache_store(iteration, _cache, key, result) ==
    DictSet(_cache, iteration_key(key, iteration), result)

\* a context with no get_or_cache call under way
NoCall == [pc |-> "idle", key |-> "", result |-> None]

\* get_cached: every entry of the mapping is a raw value stored by
\* get_or_cache or get_filtered_addresses, which has no timestamp attribute,
\* so reading entry.timestamp of a truthy entry raises AttributeError
\* (and self.cache_ttl, read next, is never assigned)
get_cached(_cache, key) ==
    LET entry == DictGet(_cache, key, None) IN
    IF ~Truthy(entry)
    THEN [cache |-> _cache, raised |-> FALSE, result |-> None]
    ELSE [cache |-> _cache, raised |-> TRUE, result |-> None]

\* [addr for addr in self.agent_manager.address_to_agent.keys() if predicate_func(addr)]
Filtered(addresses, passing) ==
    LET predicate_func(addr) == addr \in passing
    IN SelectSeq(addresses, predicate_func)

\* a get_filtered_addresses that filters on every call, key or no key
get_filtered_addresses_never_memoizing(iteration, _cache, addresses, passing, cache_key) ==
    IF cache_key = None \/ cache_key = Some("")
    THEN [cache |-> _cache, result |-> Filtered(addresses, passing), evaluated |-> TRUE]
    ELSE [cache |-> DictSet(_cache, iteration_key(cache_key[1], iteration),
                            Filtered(addresses, passing)),
          result |-> Filtered(addresses, passing), evaluated |-> TRUE]

\* get_filtered_addresses; cache_key is None or Some(string), passing is the
\* set of addresses the predicate currently accepts
get_filtered_addresses(iteration, _cache, addresses, passing, cache_key) ==
    IF cache_key = None \/ cache_key = Some("")
    THEN [cache |-> _cache, result |-> Filtered(addresses, passing), evaluated |-> TRUE]
    ELSE IF iteration_key(cache_key[1], iteration) \in DOMAIN _cache
    THEN [cache |-> _cache, result |-> _cache[iteration_key(cache_key[1], iteration)],
          evaluated |-> FALSE]
    ELSE [cache |-> DictSet(_cache, iteration_key(cache_key[1], iteration),
                            Filtered(addresses, passing)),
          result |-> Filtered(addresses, passing), evaluated |-> TRUE]

Identifiers ==
    {None, EmptyDict}
    \cup [block : 0..MaxBlockNumber]
    \cup [agent_id : AgentIds]
    \cup [block : {23, 27, 31}, agent_id : AgentIds]
    \cup [contract : Contracts]
    \cup [agent_id : AgentIds, contract : Contracts]

---------------------------------------------------------------------------
(* BaseSimulation *)

\* __init__: nothing run yet, iteration_stats = []
NewSimulation(iterations, fast_mode) ==
    [ iterations      |-> iterations,       \* config.iterations
      collector       |-> ~fast_mode,       \* self.collector is not None
      iteration_stats |-> << >>,
      pc              |-> "not_started",    \* where run() stands
      i               |-> 0,                \* the loop variable of _run_iterations
      returned        |-> None,             \* what run() returned
      log             |-> << >> ]           \* collaborator calls made, in order

Call(name, iteration, outcome) ==
    [call |-> name, iteration |-> iteration, outcome |-> outcome, value |-> None]

\* evolver.evolve_network raised instead of returning stats
EvolverRaised == [raised |-> TRUE]

\* run() returns: the except clause and every `return` end here
Return(self, value) == [self EXCEPT !.pc = "done", !.returned = Some(value)]

\* run, lines 177-185: metadata, then collector.start_simulation_run
run_start(self, outcome) ==
    LET called == [self EXCEPT !.log = Append(@, Call("start_simulation_run", 0, outcome))] IN
    IF outcome = "raise" THEN Return(called, FALSE)
    ELSE [called EXCEPT !.pc = "build"]

\* _build_initial_network: what builder.build_large_network said, False if it raised
_build_initial_network(outcome) == outcome = "true"

\* after the build: the loop of _run_iterations, or past it when there is none
EnterIterations(self) ==
    IF self.iterations > 0 THEN [self EXCEPT !.pc = "advance", !.i = 0]
    ELSE [self EXCEPT !.pc = "end"]

\* a run that goes on after a failed build
run_build_ignoring_failure(self, outcome) ==
    EnterIterations([self EXCEPT !.log = Append(@, Call("build_large_network", 0, outcome))])

\* run, lines 187-188
run_build(self, outcome) ==
    LET called == [self EXCEPT !.log = Append(@, Call("build_large_network", 0, outcome))] IN
    IF ~_build_initial_network(outcome) THEN Return(called, FALSE)
    ELSE EnterIterations(called)

\* an iteration that evolves the network although time did not advance
advance_time_ignoring_failure(self, outcome) ==
    [self EXCEPT !.log = Append(@, Call("advance_time", self.i + 1, outcome)),
                 !.pc = "evolve"]

\* _run_iterations, lines 230-235, for loop index self.i
advance_time(self, outcome) ==
    LET called == [self EXCEPT !.log = Append(@, Call("advance_time", self.i + 1, outcome))] IN
    IF outcome # "true" THEN Return(called, FALSE)
    ELSE [called EXCEPT !.pc = "evolve"]

\* _log_iteration_summary reads stats['total_actions'] and
\* stats['successful_actions']: KeyError when the evolver left one out
SummaryLogs(stats) == {"total_actions", "successful_actions"} \subseteq DOMAIN stats

\* a loop that does not move on to the next iteration after a summary
evolve_network_repeating(self, outcome) ==
    LET called == [self EXCEPT !.log = Append(@,
                      [call |-> "evolve_network", iteration |-> self.i + 1,
                       outcome |-> IF outcome = EvolverRaised THEN "raise" ELSE "ok",
                       value |-> IF outcome = EvolverRaised THEN None ELSE outcome])] IN
    IF outcome = EvolverRaised THEN Return(called, FALSE)
    ELSE LET appended == [called EXCEPT !.iteration_stats = Append(@, outcome)] IN
         IF ~SummaryLogs(outcome) THEN Return(appended, FALSE)
         ELSE IF Len(appended.iteration_stats) < self.iterations
         THEN [appended EXCEPT !.pc = "evolve"]
         ELSE [appended EXCEPT !.pc = "end"]

\* a run without the except clause: what the evolver raises leaves run()
evolve_network_propagating(self, outcome) ==
    LET called == [self EXCEPT !.log = Append(@,
                      [call |-> "evolve_network", iteration |-> self.i + 1,
                       outcome |-> IF outcome = EvolverRaised THEN "raise" ELSE "ok",
                       value |-> IF outcome = EvolverRaised THEN None ELSE outcome])] IN
    IF outcome = EvolverRaised THEN [called EXCEPT !.pc = "done"]
    ELSE LET appended == [called EXCEPT !.iteration_stats = Append(@, outcome)] IN
         IF ~SummaryLogs(outcome) THEN Return(appended, FALSE)
         ELSE IF self.i + 1 < self.iterations
         THEN [appended EXCEPT !.i = self.i + 1, !.pc = "advance"]
         ELSE [appended EXCEPT !.pc = "end"]

\* _run_iterations, lines 237-241, for loop index self.i; outcome is the stats
\* evolver.evolve_network(i + 1) returned, or "raise"
evolve_network(self, outcome) ==
    LET called == [self EXCEPT !.log = Append(@,
                      [call |-> "evolve_network", iteration |-> self.i + 1,
                       outcome |-> IF outcome = EvolverRaised THEN "raise" ELSE "ok",
                       value |-> IF outcome = EvolverRaised THEN None ELSE outcome])] IN
    IF outcome = EvolverRaised THEN Return(called, FALSE)
    ELSE LET appended == [called EXCEPT !.iteration_stats = Append(@, outcome)] IN
         IF ~SummaryLogs(outcome) THEN Return(appended, FALSE)
         ELSE IF self.i + 1 < self.iterations
         THEN [appended EXCEPT !.i = self.i + 1, !.pc = "advance"]
         ELSE [appended EXCEPT !.pc = "end"]

\* a run that reports success although the collector raised at the end
run_end_ignoring_exception(self, outcome) ==
    IF ~self.collector THEN Return(self, TRUE)
    ELSE Return([self EXCEPT !.log = Append(@, Call("end_simulation_run", 0, outcome))],
                TRUE)

\* run, lines 192-196: collector.end_simulation_run, then True
run_end(self, outcome) ==
    IF ~self.collector THEN Return(self, TRUE)
    ELSE LET called == [self EXCEPT !.log = Append(@, Call("end_simulation_run", 0, outcome))] IN
         IF outcome = "raise" THEN Return(called, FALSE) ELSE Return(called, TRUE)

RECURSIVE SumOf(_, _)
\* sum(s.get(field, 0) for s in stats)
SumOf(stats, field) ==
    IF stats = << >> THEN 0
    ELSE DictGet(Head(stats), field, 0) + SumOf(Tail(stats), field)

\* get_statistics: the parts computed from iteration_stats
get_statistics(self) ==
    [ iterations_completed |-> Len(self.iteration_stats),
      total_actions        |-> SumOf(self.iteration_stats, "total_actions"),
      successful_actions   |-> SumOf(self.iteration_stats, "successful_actions") ]

---------------------------------------------------------------------------
(* The agent as a state machine *)

Profiles ==
    [ max_daily_actions : Quotas,
      action_configs    : [Configured -> [probability : {0, 1}]],
      risk_tolerance    : {5},
      preset_addresses  : {{}, {"0xA"}} ]

Verdicts == [Configured -> {"yes", "no", "raise"}]

\* an agent nobody calls
AgentIdle ==
    /\ profile = [max_daily_actions |-> 1,
                  action_configs |-> [a \in Configured |-> [probability |-> 1]],
                  risk_tolerance |-> 5, preset_addresses |-> {}]
    /\ agent = NewAgent({})
    /\ clock = 1

\* contexts nobody calls, nothing cached
CacheIdle ==
    /\ contexts = [c \in ContextIds |-> 1]
    /\ cache = EmptyDict
    /\ calls = [pair \in BaseKeys \X Iterations |-> 0]
    /\ address_to_agent = << >>
    /\ writer = EmptyDict
    /\ evaluations = [pair \in BaseKeys \X Iterations |-> 0]
    /\ callers = [c \in ContextIds |-> NoCall]
    /\ overlapped = {}

\* a simulation nobody runs
SimIdle == sim = NewSimulation(0, TRUE)

\* agents that create their accounts, under every quota and weighting
InitScheduler ==
    /\ CacheIdle
    /\ SimIdle
    /\ profile \in {p \in Profiles : /\ p.action_configs["trust"].probability = 1
                                     /\ p.preset_addresses = {}}
    /\ agent = NewAgent(profile.preset_addresses)
    /\ clock = 1
    /\ op = [name |-> "__init__"]

\* agents with and without preset addresses; the ledger reads nothing else
\* of the profile
InitLedger ==
    /\ CacheIdle
    /\ SimIdle
    /\ profile \in {p \in Profiles : /\ p.max_daily_actions = 1
                                     /\ \A a \in Configured :
                                           p.action_configs[a].probability = 1}
    /\ agent = NewAgent(profile.preset_addresses)
    /\ clock = 1
    /\ op = [name |-> "__init__"]

\* create_account: with preset addresses it returns (None, None) and adds nothing
CreateAccount ==
    /\ \E address \in Addresses \ agent.accounts :
          /\ agent' = IF profile.preset_addresses # {} THEN agent
                      ELSE create_account(agent, address)
          /\ op' = [name |-> "create_account",
                    result |-> IF profile.preset_addresses # {} THEN None ELSE Some(address)]
    /\ UNCHANGED <<profile, clock, cacheVars, sim>>

CreateAccount2 ==
    /\ \E address \in Addresses \ agent.accounts :
          /\ agent' = create_account(agent, address)
          /\ op' = [name |-> "create_account2", result |-> Some(address)]
    /\ UNCHANGED <<profile, clock, cacheVars, sim>>

\* midnight passes: datetime.now().date() moves on
Tick ==
    /\ clock + 1 \in Days
    /\ clock' = clock + 1
    /\ op' = [name |-> "tick"]
    /\ UNCHANGED <<agent, profile, cacheVars, sim>>

RecordAction ==
    /\ Len(agent.action_history) < MaxHistory
    /\ \E action_name \in ActionNames, block_number \in Blocks, success \in BOOLEAN :
          /\ agent' = record_action(agent, action_name, block_number, success, clock)
          /\ op' = [name |-> "record_action", action_name |-> action_name,
                    block_number |-> block_number, success |-> success]
    /\ UNCHANGED <<profile, clock, cacheVars, sim>>

SelectAction ==
    /\ \E current_block \in Blocks, verdict \in Verdicts :
          \E r \in select_action(agent, profile, current_block, clock, verdict) :
             op' = [name |-> "select_action", verdict |-> verdict, result |-> r]
    /\ UNCHANGED <<agentVars, cacheVars, sim>>

UpdateBalance ==
    /\ Len(agent.balances_history) < MaxLedger
    /\ \E account \in Addresses, contract \in Contracts, balance \in 0..MaxBalance,
          stamp \in Stamps :
          /\ agent' = update_balance(agent, account, contract, balance, stamp[1], stamp[2])
          /\ op' = [name |-> "update_balance", account |-> account, contract |-> contract,
                    balance |-> balance, timestamp |-> stamp[1], block |-> stamp[2],
                    before |-> [balances_ERC20 |-> agent.balances_ERC20,
                                balances_history |-> agent.balances_history]]
    /\ UNCHANGED <<profile, clock, cacheVars, sim>>

GetLastBalance ==
    /\ \E account \in Addresses, contract \in Contracts :
          op' = [name |-> "get_last_balance", account |-> account, contract |-> contract,
                 result |-> get_last_balance(agent, account, contract)]
    /\ UNCHANGED <<agentVars, cacheVars, sim>>

\* can_perform_action is asked about configured and unconfigured actions
QueriedNames == {"trust", "mint", "burn"}

CanPerformAction ==
    /\ \E action_name \in QueriedNames, current_block \in Blocks,
          lookup \in {"ok", "raise"}, verdict \in {"yes", "no", "raise"} :
          LET r == can_perform_action(agent, profile, action_name, current_block,
                                      lookup, verdict) IN
          op' = [name |-> "can_perform_action", action_name |-> action_name,
                 lookup |-> lookup, verdict |-> verdict, raised |-> r.raised,
                 result |-> r.result, asked |-> r.asked]
    /\ UNCHANGED <<agentVars, cacheVars, sim>>

NextScheduler ==
    \/ RecordAction
    \/ SelectAction
    \/ CreateAccount
    \/ CreateAccount2
    \/ Tick

NextLedger ==
    \/ UpdateBalance
    \/ GetLastBalance
    \/ CreateAccount
    \/ CreateAccount2

SpecScheduler == InitScheduler /\ [][NextScheduler]_vars

SpecLedger == InitLedger /\ [][NextLedger]_vars

\* the eligibility check between recorded actions
NextEligibility == RecordAction \/ CanPerformAction

SpecEligibility == InitScheduler /\ [][NextEligibility]_vars

\* the bookkeeping of recorded actions over several days
NextBookkeeping == RecordAction \/ Tick

SpecBookkeeping == InitScheduler /\ [][NextBookkeeping]_vars

---------------------------------------------------------------------------
(* The contexts and their cache as a state machine *)

InitCache ==
    /\ contexts \in [ContextIds -> Iterations]
    /\ cache = EmptyDict
    /\ calls = [pair \in BaseKeys \X Iterations |-> 0]
    /\ address_to_agent = << >>
    /\ writer = EmptyDict
    /\ evaluations = [pair \in BaseKeys \X Iterations |-> 0]
    /\ callers = [c \in ContextIds |-> NoCall]
    /\ overlapped = {}
    /\ AgentIdle
    /\ SimIdle
    /\ op = [name |-> "__init__"]

GetCacheKey ==
    /\ \E base_key \in BaseKeys, identifiers \in Identifiers :
          op' = [name |-> "get_cache_key", base_key |-> base_key,
                 identifiers |-> identifiers,
                 result |-> get_cache_key(base_key, identifiers)]
    /\ UNCHANGED <<agentVars, cacheVars, sim>>

\* get_or_cache called with one of the given keys and a generator that
\* returns one of the given values
GetOrCacheOf(keys, values) ==
    /\ \E c \in ContextIds, key \in keys, produced \in values :
          LET r == get_or_cache(contexts[c], cache, key, produced) IN
          /\ calls[<<key, contexts[c]>>] < MaxCalls
          /\ cache' = r.cache
          /\ calls' = IF r.called
                      THEN [calls EXCEPT ![<<key, contexts[c]>>] = @ + 1]
                      ELSE calls
          /\ writer' = [k \in DOMAIN r.cache |->
                          IF k \in DOMAIN cache /\ r.cache[k] = cache[k]
                          THEN writer[k] ELSE c]
          /\ op' = [name |-> "get_or_cache", context |-> c, iteration |-> contexts[c],
                    key |-> key, produced |-> produced, result |-> r.result,
                    called |-> r.called, hit |-> iteration_key(key, contexts[c]) \in DOMAIN cache]
    /\ UNCHANGED <<agentVars, contexts, address_to_agent, evaluations, callers,
                   overlapped, sim>>

GetOrCache == GetOrCacheOf(BaseKeys, Values)

NextCache == GetOrCache

SpecCache == InitCache /\ [][NextCache]_vars

\* get_cache_key reads no field: one context, called with every input
InitCacheKey ==
    /\ CacheIdle
    /\ AgentIdle
    /\ SimIdle
    /\ op = [name |-> "__init__"]

NextCacheKey == GetCacheKey

SpecCacheKey == InitCacheKey /\ [][NextCacheKey]_vars

\* contexts that share one mapping and one agent manager, using every
\* cache method
FilterKeys == {None, Some(""), Some("x")}

ReadKeys == {"x", "x_iter_1"}

InitContext ==
    /\ contexts \in {[c \in ContextIds |-> 1],
                     [c \in ContextIds |-> IF c = "c1" THEN 1 ELSE 2]}
    /\ cache = EmptyDict
    /\ calls = [pair \in BaseKeys \X Iterations |-> 0]
    /\ address_to_agent = << >>
    /\ writer = EmptyDict
    /\ evaluations = [pair \in BaseKeys \X Iterations |-> 0]
    /\ callers = [c \in ContextIds |-> NoCall]
    /\ overlapped = {}
    /\ AgentIdle
    /\ SimIdle
    /\ op = [name |-> "__init__"]

\* the agent manager registers an agent's address
RegisterAgent ==
    /\ \E addr \in ManagedAddresses :
          /\ \A n \in 1..Len(address_to_agent) : address_to_agent[n] < addr
          /\ address_to_agent' = Append(address_to_agent, addr)
          /\ op' = [name |-> "register_agent", address |-> addr]
    /\ UNCHANGED <<agentVars, contexts, cache, calls, writer, evaluations, callers,
                   overlapped, sim>>

GetFilteredAddresses ==
    /\ \E c \in ContextIds, cache_key \in FilterKeys, passing \in SUBSET ManagedAddresses :
          LET r == get_filtered_addresses(contexts[c], cache, address_to_agent,
                                          passing, cache_key)
          IN
          /\ cache_key \notin {None, Some("")} /\ r.evaluated
                => evaluations[<<cache_key[1], contexts[c]>>] < MaxCalls
          /\ cache' = r.cache
          /\ evaluations' = IF cache_key \notin {None, Some("")} /\ r.evaluated
                            THEN [evaluations EXCEPT ![<<cache_key[1], contexts[c]>>] = @ + 1]
                            ELSE evaluations
          /\ writer' = [k \in DOMAIN r.cache |->
                          IF k \in DOMAIN cache /\ r.cache[k] = cache[k]
                          THEN writer[k] ELSE c]
          /\ op' = [name |-> "get_filtered_addresses", context |-> c,
                    iteration |-> contexts[c], cache_key |-> cache_key,
                    passing |-> passing, result |-> r.result,
                    evaluated |-> r.evaluated]
    /\ UNCHANGED <<agentVars, contexts, calls, address_to_agent, callers, overlapped, sim>>

GetCached ==
    /\ \E c \in ContextIds, key \in ReadKeys :
          LET r == get_cached(cache, key) IN
          /\ cache' = r.cache
          /\ writer' = [k \in DOMAIN r.cache |-> writer[k]]
          /\ op' = [name |-> "get_cached", context |-> c, iteration |-> contexts[c],
                    key |-> key, raised |-> r.raised, result |-> r.result,
                    evicted |-> key \in DOMAIN cache /\ key \notin DOMAIN r.cache]
    /\ UNCHANGED <<agentVars, contexts, calls, address_to_agent, evaluations, callers,
                   overlapped, sim>>

SharedGetOrCache == GetOrCacheOf({"x"}, {<<0>>, <<7>>})

NextContext == SharedGetOrCache \/ GetFilteredAddresses \/ GetCached \/ RegisterAgent

SpecContext == InitContext /\ [][NextContext]_vars

\* get_or_cache line by line, for callers that nothing serializes: each
\* context is a caller, and between its membership test, its generator run
\* and its store the other caller may take steps
InitInterleaved ==
    /\ contexts \in [ContextIds -> Iterations]
    /\ cache = EmptyDict
    /\ calls = [pair \in BaseKeys \X Iterations |-> 0]
    /\ address_to_agent = << >>
    /\ writer = EmptyDict
    /\ evaluations = [pair \in BaseKeys \X Iterations |-> 0]
    /\ callers = [c \in ContextIds |-> NoCall]
    /\ overlapped = {}
    /\ AgentIdle
    /\ SimIdle
    /\ op = [name |-> "__init__"]

\* another caller is between its membership test and its store for the pair
UnderWay(c, key) ==
    \E d \in ContextIds \ {c} :
        /\ callers[d].pc # "idle"
        /\ callers[d].key = key
        /\ contexts[d] = contexts[c]

\* lines 89-92
CheckMembership ==
    /\ \E c \in ContextIds, key \in BaseKeys :
          LET r == get_or_cache_check(contexts[c], cache, key) IN
          /\ callers[c].pc = "idle"
          /\ callers' = IF r.hit THEN callers
                        ELSE [callers EXCEPT ![c] = [pc |-> "compute", key |-> key,
                                                     result |-> None]]
          /\ overlapped' = IF ~r.hit /\ UnderWay(c, key)
                           THEN overlapped \cup {<<key, contexts[c]>>}
                           ELSE overlapped
          /\ op' = [name |-> "get_or_cache", step |-> "check", context |-> c,
                    key |-> key, hit |-> r.hit, result |-> r.result]
    /\ UNCHANGED <<agentVars, contexts, cache, calls, address_to_agent, writer,
                   evaluations, sim>>

\* line 95: result = generator_func()
RunGenerator ==
    /\ \E c \in ContextIds, produced \in {<<0>>, <<7>>} :
          /\ callers[c].pc = "compute"
          /\ calls[<<callers[c].key, contexts[c]>>] < MaxCalls
          /\ calls' = [calls EXCEPT ![<<callers[c].key, contexts[c]>>] = @ + 1]
          /\ callers' = [callers EXCEPT ![c].pc = "store", ![c].result = produced]
          /\ op' = [name |-> "get_or_cache", step |-> "compute", context |-> c,
                    key |-> callers[c].key, hit |-> FALSE, result |-> produced]
    /\ UNCHANGED <<agentVars, contexts, cache, address_to_agent, writer, evaluations,
                   overlapped, sim>>

\* lines 96-97: store and return
StoreResult ==
    /\ \E c \in ContextIds :
          /\ callers[c].pc = "store"
          /\ cache' = get_or_cache_store(contexts[c], cache, callers[c].key,
                                         callers[c].result)
          /\ writer' = [k \in DOMAIN cache' |->
                          IF k \in DOMAIN cache /\ cache'[k] = cache[k]
                          THEN writer[k] ELSE c]
          /\ callers' = [callers EXCEPT ![c] = NoCall]
          /\ op' = [name |-> "get_or_cache", step |-> "store", context |-> c,
                    key |-> callers[c].key, hit |-> FALSE, result |-> callers[c].result]
    /\ UNCHANGED <<agentVars, contexts, calls, address_to_agent, evaluations,
                   overlapped, sim>>

NextInterleaved == CheckMembership \/ RunGenerator \/ StoreResult

SpecInterleaved == InitInterleaved /\ [][NextInterleaved]_vars

---------------------------------------------------------------------------
(* The simulation run as a state machine *)

\* what evolver.evolve_network(iteration) can return: a summary, or one
\* without its counts
Summaries(iteration) ==
    [iteration : {iteration}, total_actions : {1, 2}, successful_actions : {0, 1}]
    \cup [iteration : {iteration}]

InitSim ==
    /\ AgentIdle
    /\ CacheIdle
    /\ sim \in {NewSimulation(n, f) : n \in 0..MaxIterations, f \in BOOLEAN}
    /\ op = [name |-> "__init__"]

RunStart ==
    /\ sim.pc = "not_started"
    /\ \E outcome \in {"ok", "raise"} : sim' = run_start(sim, outcome)
    /\ op' = [name |-> "run"]
    /\ UNCHANGED <<agentVars, cacheVars>>

BuildInitialNetwork ==
    /\ sim.pc = "build"
    /\ \E outcome \in {"true", "false", "raise"} : sim' = run_build(sim, outcome)
    /\ op' = [name |-> "_build_initial_network"]
    /\ UNCHANGED <<agentVars, cacheVars>>

AdvanceTime ==
    /\ sim.pc = "advance"
    /\ \E outcome \in {"true", "false", "raise"} : sim' = advance_time(sim, outcome)
    /\ op' = [name |-> "advance_time"]
    /\ UNCHANGED <<agentVars, cacheVars>>

EvolveNetwork ==
    /\ sim.pc = "evolve"
    /\ \E outcome \in Summaries(sim.i + 1) \cup {EvolverRaised} : sim' = evolve_network(sim, outcome)
    /\ op' = [name |-> "evolve_network"]
    /\ UNCHANGED <<agentVars, cacheVars>>

RunEnd ==
    /\ sim.pc = "end"
    /\ \E outcome \in {"ok", "raise"} : sim' = run_end(sim, outcome)
    /\ op' = [name |-> "end_simulation_run"]
    /\ UNCHANGED <<agentVars, cacheVars>>

GetStatistics ==
    /\ op' = [name |-> "get_statistics", result |-> get_statistics(sim)]
    /\ UNCHANGED <<agentVars, cacheVars, sim>>

NextSim ==
    \/ RunStart
    \/ BuildInitialNetwork
    \/ AdvanceTime
    \/ EvolveNetwork
    \/ RunEnd
    \/ GetStatistics

SpecSim == InitSim /\ [][NextSim]_vars

---------------------------------------------------------------------------
(* Scheduler properties *)

CountToday == DictGet(agent.daily_action_counts, IsoFormat(clock), 0)

\* C1: after any sequence of record_action calls, daily_action_counts[today]
\* never exceeds the profile's max_daily_actions.
DailyCountWithinQuota == CountToday <= profile.max_daily_actions

\* C2: record_action(action_name, block_number, success=False) leaves
\* last_actions, daily_action_counts and action_history as they were, for
\* every action name, block number and prior state.
FailedRecordChangesNothing ==
    \A action_name \in ActionNames, block_number \in Blocks :
        LET after == record_action(agent, action_name, block_number, FALSE, clock) IN
        /\ after.last_actions = agent.last_actions
        /\ after.daily_action_counts = agent.daily_action_counts
        /\ after.action_history = agent.action_history

\* a failed attempt was recorded by an agent that has a cooldown and a count
FailedRecordSeen ==
    /\ op.name = "record_action"
    /\ ~op.success
    /\ op.action_name \in DOMAIN agent.last_actions
    /\ agent.last_actions[op.action_name] # op.block_number
    /\ CountToday > 0

\* C3: whenever today's count is at least max_daily_actions, select_action
\* returns (None, "", {}) whatever the block, the cooldowns and the
\* eligibility of the configured actions.
QuotaReachedSelectsNothing ==
    CountToday >= profile.max_daily_actions =>
        \A current_block \in Blocks, verdict \in Verdicts :
            select_action(agent, profile, current_block, clock, verdict) = {NoAction}

\* quota-many successes today, then a select_action with an eligible action
\* and an account to act with: no action
QuotaReachedSelectSeen ==
    /\ op.name = "select_action"
    /\ CountToday = profile.max_daily_actions
    /\ Len(agent.action_history) = profile.max_daily_actions
    /\ \A a \in Configured : op.verdict[a] = "yes"
    /\ agent.accounts # {}
    /\ op.result = NoAction

---------------------------------------------------------------------------
(* Ledger properties *)

HasEntry(self, account, contract) == get_last_balance(self, account, contract) # None

ZeroRecord(account, contract, timestamp, block) ==
    [contract |-> contract, account |-> account, balance |-> 0,
     timestamp |-> timestamp, block |-> block]

\* C4 as stated: update_balance with balance 0 for a controlled account and a
\* contract with no entry for the pair leaves the current-balance mapping and
\* the balance history unchanged.
FirstZeroLeavesLedgerUnchanged ==
    (/\ op.name = "update_balance"
     /\ op.balance = 0
     /\ op.account \in agent.accounts
     /\ op.contract \notin DOMAIN DictGet(op.before.balances_ERC20, op.account, EmptyDict))
    => /\ agent.balances_ERC20 = op.before.balances_ERC20
       /\ agent.balances_history = op.before.balances_history

\* C4 amended: such a call leaves the balance history unchanged and gives no
\* (account, contract) pair an entry or another balance; the current-balance
\* mapping changes at most by an empty inner mapping for the account.
FirstZeroRecordsNothing ==
    \A account \in agent.accounts, contract \in Contracts,
       stamp \in Stamps :
        ~HasEntry(agent, account, contract) =>
            LET after == update_balance(agent, account, contract, 0, stamp[1], stamp[2]) IN
            /\ after.balances_history = agent.balances_history
            /\ \A a \in Addresses, c \in Contracts :
                  get_last_balance(after, a, c) = get_last_balance(agent, a, c)
            /\ after.balances_ERC20 =
                  IF account \in DOMAIN agent.balances_ERC20
                  THEN agent.balances_ERC20
                  ELSE DictSet(agent.balances_ERC20, account, EmptyDict)

\* a first-time zero was reported for a controlled account that holds
\* something else: the pair still has no entry
FirstZeroSeen ==
    /\ op.name = "update_balance"
    /\ op.balance = 0
    /\ op.account \in agent.accounts
    /\ ~HasEntry(agent, op.account, op.contract)
    /\ \E c \in Contracts : HasEntry(agent, op.account, c)

\* C5: update_balance with balance 0 for a pair that has an entry sets the
\* pair's current balance to 0 and appends exactly one record
\* (contract, account, 0, timestamp, block) to the end of the history.
ZeroUpdateIsRecorded ==
    \A account \in Addresses, contract \in Contracts,
       stamp \in Stamps :
        HasEntry(agent, account, contract) =>
            LET after == update_balance(agent, account, contract, 0, stamp[1], stamp[2]) IN
            /\ get_last_balance(after, account, contract) = Some(0)
            /\ after.balances_history =
                  Append(agent.balances_history,
                         ZeroRecord(account, contract, stamp[1], stamp[2]))

\* a zero was reported for a pair that held a positive balance
ZeroUpdateSeen ==
    /\ op.name = "update_balance"
    /\ op.balance = 0
    /\ Len(agent.balances_history) = 2
    /\ agent.balances_history[1].account = op.account
    /\ agent.balances_history[1].contract = op.contract
    /\ agent.balances_history[1].balance > 0
    /\ agent.balances_history[2] =
          ZeroRecord(op.account, op.contract, op.timestamp, op.block)
    /\ get_last_balance(agent, op.account, op.contract) = Some(0)

\* C6: update_balance for an account the agent does not control changes
\* neither the current-balance mapping nor the history, and get_last_balance
\* for that account is None before and after.
ForeignAccountIsIgnored ==
    \A account \in Addresses \ agent.accounts, contract \in Contracts,
       balance \in 0..MaxBalance, stamp \in Stamps :
        LET after == update_balance(agent, account, contract, balance, stamp[1], stamp[2]) IN
        /\ after.balances_ERC20 = agent.balances_ERC20
        /\ after.balances_history = agent.balances_history
        /\ \A c \in Contracts :
              /\ get_last_balance(agent, account, c) = None
              /\ get_last_balance(after, account, c) = None

\* a positive balance was reported for an account of somebody else, to an
\* agent that keeps a ledger of its own
ForeignUpdateSeen ==
    /\ op.name = "update_balance"
    /\ op.account \notin agent.accounts
    /\ op.balance > 0
    /\ agent.balances_history # << >>
    /\ \A c \in Contracts : get_last_balance(agent, op.account, c) = None

---------------------------------------------------------------------------
(* Cache properties *)

\* C7: in single-threaded use the generator runs exactly once per distinct
\* (key, iteration): a call that finds the iteration key stored returns the
\* stored value (None and falsy values too) without calling it, a call that
\* does not (a first call, or the same key under another iteration) calls
\* it once and stores what it returned.
GeneratorRunsOncePerKeyAndIteration ==
    /\ \A pair \in BaseKeys \X Iterations : calls[pair] <= 1
    /\ op.name = "get_or_cache" => calls[<<op.key, op.iteration>>] = 1
    /\ \A iteration \in Iterations, key \in BaseKeys, produced \in Values :
          LET ik == key \o "_iter_" \o ToString(iteration)
              r == get_or_cache(iteration, cache, key, produced) IN
          IF calls[<<key, iteration>>] = 1
          THEN ik \in DOMAIN cache /\ ~r.called /\ r.result = cache[ik] /\ r.cache = cache
          ELSE /\ ik \notin DOMAIN cache
               /\ r.called /\ r.result = produced
               /\ r.cache = DictSet(cache, ik, produced)

\* "x" was computed in iteration 1 and in iteration 2, and a second call in
\* one of them got the stored None back although the generator had 7 to give
SecondCallServedFromCache ==
    /\ op.name = "get_or_cache"
    /\ op.key = "x"
    /\ calls[<<"x", 1>>] = 1
    /\ calls[<<"x", 2>>] = 1
    /\ ~op.called
    /\ op.result = None
    /\ op.produced = <<7>>

\* C8: for a fixed base key, identifiers with block numbers b1 and b2 give
\* the same key exactly when floor(b1/10) = floor(b2/10) (23 and 27 the same
\* key, 31 another); with no identifiers the base key comes back unchanged.
BlockKeysFollowRanges ==
    /\ get_cache_key("x", [block |-> 23]) = get_cache_key("x", [block |-> 27])
    /\ get_cache_key("x", [block |-> 31]) # get_cache_key("x", [block |-> 23])
    /\ op.name = "get_cache_key" =>
          IF DOMAIN op.identifiers = {}
          THEN op.result = op.base_key
          ELSE "block" \in DOMAIN op.identifiers =>
                 \A b2 \in 0..MaxBlockNumber :
                    (op.result = get_cache_key(op.base_key, [block |-> b2]))
                    <=> (op.identifiers.block \div 10 = b2 \div 10)

\* the key of block 27 was asked for, and is the key of blocks 20..29
BlockKeySeen ==
    /\ op.name = "get_cache_key"
    /\ op.base_key = "x"
    /\ op.identifiers = [block |-> 27]
    /\ op.result = "x_block_2"

---------------------------------------------------------------------------
(* Driver properties *)

Failed(entry) == entry.outcome # "true"

\* C9: if the initial network build reports failure (returns false or
\* raises), run() returns False without entering the iterations:
\* advance_time and evolve_network are never called and iteration_stats
\* stays empty.
BuildFailureEndsRun ==
    \A j \in DOMAIN sim.log :
        (sim.log[j].call = "build_large_network" /\ Failed(sim.log[j])) =>
            /\ sim.pc = "done"
            /\ sim.returned = Some(FALSE)
            /\ sim.iteration_stats = << >>
            /\ get_statistics(sim).iterations_completed = 0
            /\ \A m \in DOMAIN sim.log :
                  sim.log[m].call \notin {"advance_time", "evolve_network"}

\* the builder raised in a simulation configured for iterations, run()
\* returned False and the statistics were read
BuildFailureSeen ==
    /\ op.name = "get_statistics"
    /\ sim.iterations > 0
    /\ sim.log # << >>
    /\ sim.log[Len(sim.log)] = Call("build_large_network", 0, "raise")
    /\ sim.returned = Some(FALSE)
    /\ op.result.iterations_completed = 0

\* C10: if time advancement fails at iteration k of N, run() returns False,
\* evolve_network is not called for iteration k or any later one, and
\* iteration_stats holds exactly the summaries of iterations 1..k-1, in
\* order, still to be read through get_statistics.
AdvanceFailureKeepsEarlierStats ==
    \A j \in DOMAIN sim.log :
        (sim.log[j].call = "advance_time" /\ Failed(sim.log[j])) =>
            LET k == sim.log[j].iteration IN
            /\ k \in 1..sim.iterations
            /\ sim.pc = "done"
            /\ sim.returned = Some(FALSE)
            /\ \A m \in DOMAIN sim.log :
                  sim.log[m].call = "evolve_network" => sim.log[m].iteration < k
            /\ Len(sim.iteration_stats) = k - 1
            /\ \A n \in 1..(k - 1) :
                  /\ sim.iteration_stats[n].iteration = n
                  /\ \E m \in DOMAIN sim.log :
                        /\ sim.log[m].call = "evolve_network"
                        /\ sim.log[m].iteration = n
                        /\ sim.log[m].value = sim.iteration_stats[n]
            /\ get_statistics(sim).iterations_completed = k - 1

\* time did not advance at iteration 3 of 3; the summaries of iterations 1
\* and 2 were read afterwards
AdvanceFailureSeen ==
    /\ op.name = "get_statistics"
    /\ sim.iterations = 3
    /\ sim.log # << >>
    /\ sim.log[Len(sim.log)] = Call("advance_time", 3, "false")
    /\ sim.returned = Some(FALSE)
    /\ Len(sim.iteration_stats) = 2
    /\ op.result.iterations_completed = 2
    /\ op.result.total_actions = 3

---------------------------------------------------------------------------
(* C11..C20 *)

\* C11: get_cached(key) returns none for an absent key, the stored value for
\* an entry still within its time-to-live, and none with the entry removed
\* once the time-to-live is exceeded; this holds for every entry of the
\* mapping, those stored by get_or_cache and get_filtered_addresses included.
\* So a call never raises, and an entry it leaves in place is what it returned.
CachedReadHonoursTTL ==
    op.name = "get_cached" =>
        /\ ~op.raised
        /\ op.key \in DOMAIN cache => op.result = cache[op.key] /\ ~op.evicted
        /\ op.key \notin DOMAIN cache => op.result = None

\* the mapping without the entries that contexts of other iterations stored
OwnEntries(iteration) ==
    LET own == {k \in DOMAIN cache : contexts[writer[k]] = iteration}
    IN [k \in own |-> cache[k]]

SameIterationContextsShareWrites ==
    \A c \in ContextIds, d \in ContextIds, key \in BaseKeys, produced \in Values :
        (/\ c # d
         /\ contexts[c] = contexts[d]
         /\ iteration_key(key, contexts[c]) \in DOMAIN cache
         /\ writer[iteration_key(key, contexts[c])] = c
         /\ calls[<<key, contexts[c]>>] > 0)
        => LET r == get_or_cache(contexts[d], cache, key, produced) IN
           /\ r.result = cache[iteration_key(key, contexts[c])]
           /\ ~r.called
           /\ r.cache = cache

\* a context was handed the value the other context of its iteration stored,
\* not the one its own generator would have produced
OtherContextsWriteReturned ==
    /\ op.name = "get_or_cache"
    /\ ~op.called
    /\ writer[iteration_key(op.key, op.iteration)] # op.context
    /\ contexts[writer[iteration_key(op.key, op.iteration)]] = op.iteration
    /\ op.result = cache[iteration_key(op.key, op.iteration)]
    /\ op.result # op.produced

\* self.last_actions.get(action_name), none when the action never succeeded
LastAction(self, action_name) ==
    IF action_name \in DOMAIN self.last_actions
    THEN Some(self.last_actions[action_name]) ELSE None

\* C14: select_action never changes the rate-limit state: last_actions,
\* daily_action_counts and action_history are the same after the call as
\* before it; and the last_actions entry of an action changes only through
\* record_action of that action with success=True.
SelectionLeavesTrackingAlone ==
    [][/\ op'.name = "select_action" =>
             /\ agent'.last_actions = agent.last_actions
             /\ agent'.daily_action_counts = agent.daily_action_counts
             /\ agent'.action_history = agent.action_history
       /\ \A a \in ActionNames :
             LastAction(agent', a) # LastAction(agent, a) =>
                /\ op'.name = "record_action"
                /\ op'.action_name = a
                /\ op'.success]_vars

\* an action was selected by an agent that already has cooldown marks and a
\* daily count
SelectionWithTrackingSeen ==
    /\ op.name = "select_action"
    /\ op.result.action_name # None
    /\ DOMAIN agent.last_actions # {}
    /\ DOMAIN agent.daily_action_counts # {}
    /\ Len(agent.action_history) > 0

\* C15: can_perform_action never propagates an error: when the profile's
\* configuration lookup or its predicate raises, the result is false; it is
\* false for an action without a configuration; otherwise it is the answer
\* of the profile's predicate for (action_name, current_block, block of the
\* action's last success or 0).
EligibilityCheckNeverRaises ==
    \A action_name \in QueriedNames, current_block \in Blocks,
       lookup \in {"ok", "raise"}, verdict \in {"yes", "no", "raise"} :
        LET r == can_perform_action(agent, profile, action_name, current_block,
                                    lookup, verdict)
            configured == action_name \in DOMAIN profile.action_configs
            last == IF action_name \in DOMAIN agent.last_actions
                    THEN agent.last_actions[action_name] ELSE 0
        IN
        /\ ~r.raised
        /\ lookup = "raise" => ~r.result /\ r.asked = None
        /\ lookup = "ok" /\ ~configured => ~r.result /\ r.asked = None
        /\ lookup = "ok" /\ configured =>
              /\ r.asked = Some(<<action_name, current_block, last>>)
              /\ verdict = "raise" => ~r.result
              /\ verdict # "raise" => (r.result <=> verdict = "yes")

\* the predicate raised when asked about an action that had succeeded
\* before, and the check answered false
RaisingPredicateAnsweredFalse ==
    /\ op.name = "can_perform_action"
    /\ op.verdict = "raise"
    /\ op.asked # None
    /\ op.asked[1][3] > 0
    /\ ~op.raised
    /\ ~op.result

\* C16: an exception that the profile's predicate raises while select_action
\* computes the eligible set is caught locally and counts as "not eligible":
\* select_action does not raise, and it returns no action or one of the
\* actions the predicate accepted.
RaisingPredicateCountsAsNotEligible ==
    (/\ op.name = "select_action"
     /\ \E a \in DOMAIN op.verdict : op.verdict[a] = "raise")
    => /\ ~op.result.raised
       /\ \/ op.result.action_name = None
          \/ \E a \in DOMAIN op.verdict :
                op.verdict[a] = "yes" /\ op.result.action_name = Some(a)

\* C18: with a cache key, get_filtered_addresses evaluates the predicate
\* over the agent addresses at most once per (cache key, iteration), and
\* every later call of that iteration returns the memoized list, even if the
\* predicate's outcome or the address set has changed since; without a cache
\* key every call evaluates the predicate afresh against the current
\* addresses and stores nothing in the cache.  No step changes or removes an
\* entry once it is stored.
FilterMemoizedPerKeyAndIteration ==
    [][/\ \A k \in DOMAIN cache : k \in DOMAIN cache' /\ cache'[k] = cache[k]
       /\ op'.name = "get_filtered_addresses" =>
            IF op'.cache_key \in {None, Some("")}
            THEN /\ op'.evaluated
                 /\ op'.result = Filtered(address_to_agent, op'.passing)
                 /\ cache' = cache
                 /\ evaluations' = evaluations
            ELSE LET pair == <<op'.cache_key[1], op'.iteration>>
                     ik == iteration_key(op'.cache_key[1], op'.iteration)
                 IN
                 /\ evaluations'[pair] <= 1
                 /\ evaluations[pair] = 1 =>
                       /\ ~op'.evaluated
                       /\ op'.result = cache[ik]
                       /\ cache' = cache
                 /\ op'.evaluated =>
                       /\ evaluations[pair] = 0 /\ evaluations'[pair] = 1
                       /\ ik \notin DOMAIN cache
                       /\ op'.result = Filtered(address_to_agent, op'.passing)
                       /\ cache' = DictSet(cache, ik, op'.result)]_vars

\* a call with a cache key was answered with the list memoized earlier in
\* the iteration, which is no longer what the predicate and the addresses
\* would give
StaleMemoizedListReturned ==
    /\ op.name = "get_filtered_addresses"
    /\ op.cache_key = Some("x")
    /\ ~op.evaluated
    /\ evaluations[<<"x", op.iteration>>] = 1
    /\ Len(address_to_agent) = 2
    /\ op.result # Filtered(address_to_agent, op.passing)

\* the summary the evolver returned for an iteration, as the log has it
Evolved(iteration, stats) ==
    \E m \in DOMAIN sim.log :
        /\ sim.log[m].call = "evolve_network"
        /\ sim.log[m].iteration = iteration
        /\ sim.log[m].outcome = "ok"
        /\ sim.log[m].value = stats

\* C17: run() returns True only if the build succeeded and time advanced
\* for every one of the N configured iterations, with no exception raised;
\* iteration_stats then holds exactly N summaries, one per iteration 1..N,
\* in increasing order.
TrueMeansEveryIterationRan ==
    sim.returned = Some(TRUE) =>
        /\ \E m \in DOMAIN sim.log : sim.log[m] = Call("build_large_network", 0, "true")
        /\ \A k \in 1..sim.iterations :
              \E m \in DOMAIN sim.log : sim.log[m] = Call("advance_time", k, "true")
        /\ \A m \in DOMAIN sim.log : sim.log[m].outcome \notin {"raise", "false"}
        /\ Len(sim.iteration_stats) = sim.iterations
        /\ \A n \in 1..sim.iterations :
              /\ sim.iteration_stats[n].iteration = n
              /\ SummaryLogs(sim.iteration_stats[n])
              /\ Evolved(n, sim.iteration_stats[n])

\* a run with a collector and several iterations returned True
RunOfSeveralIterationsSucceeded ==
    /\ sim.returned = Some(TRUE)
    /\ sim.collector
    /\ sim.iterations >= 2
    /\ Len(sim.iteration_stats) = sim.iterations

\* C19: the driver's steps are strictly ordered: no time advancement and no
\* action execution before the build has reported success; the actions of
\* iteration i run only after time advanced successfully for iteration i;
\* advancement for iteration i+1 starts only after the summary of iteration
\* i has been appended; every iteration in 1..N is evolved at most once.
DriverStepsAreOrdered ==
    \A m \in DOMAIN sim.log :
        LET entry == sim.log[m] IN
        /\ entry.call \in {"advance_time", "evolve_network"} =>
              /\ entry.iteration \in 1..sim.iterations
              /\ \E j \in 1..(m - 1) : sim.log[j] = Call("build_large_network", 0, "true")
        /\ entry.call = "evolve_network" =>
              /\ m > 1
              /\ sim.log[m - 1] = Call("advance_time", entry.iteration, "true")
              /\ \A j \in DOMAIN sim.log :
                    (sim.log[j].call = "evolve_network"
                     /\ sim.log[j].iteration = entry.iteration) => j = m
        /\ (entry.call = "advance_time" /\ entry.iteration > 1) =>
              /\ sim.log[m - 1].call = "evolve_network"
              /\ sim.log[m - 1].iteration = entry.iteration - 1
              /\ Len(sim.iteration_stats) >= entry.iteration - 1
              /\ sim.iteration_stats[entry.iteration - 1] = sim.log[m - 1].value

\* time has just advanced for iteration 2, with the summary of iteration 1
\* and no other in iteration_stats
SecondAdvanceAfterFirstSummary ==
    /\ sim.pc = "evolve"
    /\ sim.log # << >>
    /\ sim.log[Len(sim.log)] = Call("advance_time", 2, "true")
    /\ Len(sim.iteration_stats) = 1

\* C20: an exception raised during run() by the collector's start, the
\* network build, time advancement or the action execution of an iteration
\* k is caught at the run boundary and makes run() return False; the
\* summaries of iterations 1..k-1 stay in iteration_stats and none is
\* appended for iteration k.
ExceptionMakesRunReturnFalse ==
    \A m \in DOMAIN sim.log :
        (/\ sim.log[m].outcome = "raise"
         /\ sim.log[m].call \in {"start_simulation_run", "build_large_network",
                                 "advance_time", "evolve_network"})
        => /\ m = Len(sim.log)
           /\ sim.pc = "done"
           /\ sim.returned = Some(FALSE)
           /\ Len(sim.iteration_stats) =
                 IF sim.log[m].iteration = 0 THEN 0 ELSE sim.log[m].iteration - 1
           /\ \A n \in DOMAIN sim.iteration_stats :
                 /\ sim.iteration_stats[n].iteration = n
                 /\ Evolved(n, sim.iteration_stats[n])

\* the evolver raised in iteration 2 after iteration 1 had been summarised
SecondIterationRaised ==
    /\ sim.log # << >>
    /\ sim.log[Len(sim.log)].call = "evolve_network"
    /\ sim.log[Len(sim.log)].iteration = 2
    /\ sim.log[Len(sim.log)].outcome = "raise"
    /\ Len(sim.iteration_stats) = 1
    /\ sim.returned = Some(FALSE)

---------------------------------------------------------------------------
(* C21..C24 *)

\* C21: whenever select_action returns an action name, that action is
\* configured for the agent and was reported eligible by the profile's
\* predicate, the acting address is one of the agent's controlled addresses,
\* and params carry that address as sender and the profile's risk tolerance;
\* if the eligible set is empty or the agent controls no address,
\* select_action returns no action.
SelectionIsEligibleOrNothing ==
    op.name = "select_action" =>
        /\ op.result.action_name # None =>
              /\ ~op.result.raised
              /\ \E a \in DOMAIN profile.action_configs :
                    op.result.action_name = Some(a) /\ op.verdict[a] = "yes"
              /\ op.result.acting_address \in agent.accounts
              /\ op.result.params = [sender |-> op.result.acting_address,
                                     risk_tolerance |-> profile.risk_tolerance]
        /\ ((\A a \in DOMAIN profile.action_configs : op.verdict[a] # "yes")
             \/ agent.accounts = {})
            => op.result = NoAction

RECURSIVE SumOfCounts(_)
\* sum(self.daily_action_counts.values())
SumOfCounts(counts) ==
    IF DOMAIN counts = {} THEN 0
    ELSE LET day == CHOOSE d \in DOMAIN counts : TRUE
         IN counts[day] + SumOfCounts([d \in DOMAIN counts \ {day} |-> counts[d]])

\* C22: record_action(action_name, block_number, success=True) sets
\* last_actions[action_name] to block_number, increases today's count by
\* exactly 1 and appends exactly (action_name, block_number) to the end of
\* action_history; the last_actions entries of every other action, the
\* counts of other days and all earlier history entries stay as they were.
\* Hence the number of history entries always equals the sum of all daily
\* counts.
SuccessIsRecordedOnce ==
    /\ Len(agent.action_history) = SumOfCounts(agent.daily_action_counts)
    /\ \A action_name \in ActionNames, block_number \in Blocks :
          LET after == record_action(agent, action_name, block_number, TRUE, clock)
              today == IsoFormat(clock)
          IN
          /\ DOMAIN after.last_actions = DOMAIN agent.last_actions \cup {action_name}
          /\ after.last_actions[action_name] = block_number
          /\ \A other \in DOMAIN agent.last_actions \ {action_name} :
                after.last_actions[other] = agent.last_actions[other]
          /\ DOMAIN after.daily_action_counts = DOMAIN agent.daily_action_counts \cup {today}
          /\ after.daily_action_counts[today] = CountToday + 1
          /\ \A day \in DOMAIN agent.daily_action_counts \ {today} :
                after.daily_action_counts[day] = agent.daily_action_counts[day]
          /\ Len(after.action_history) = Len(agent.action_history) + 1
          /\ after.action_history[Len(after.action_history)] = <<action_name, block_number>>
          /\ \A n \in DOMAIN agent.action_history :
                after.action_history[n] = agent.action_history[n]
          /\ Len(after.action_history) = SumOfCounts(after.daily_action_counts)

\* a success was recorded on the second day by an agent that holds the mark
\* of another action and a count of the day before
SuccessOnSecondDaySeen ==
    /\ op.name = "record_action"
    /\ op.success
    /\ clock = 2
    /\ DOMAIN agent.daily_action_counts = {IsoFormat(1), IsoFormat(2)}
    /\ DOMAIN agent.last_actions = ActionNames
    /\ agent.action_history[Len(agent.action_history)] = <<op.action_name, op.block_number>>
    /\ Len(agent.action_history) = MaxHistory

\* C23: at most one computation per (key, iteration) holds for callers
\* sharing one cache only when each get_or_cache call runs its membership
\* check, computation and store without another call interleaving: the
\* generator of a pair has run more than once only if two calls for the pair
\* were under way at once; and when two unserialized callers interleave
\* these steps on one pair, both can miss and the generator runs twice.
RepeatedComputationNeedsInterleaving ==
    \A pair \in BaseKeys \X Iterations :
        /\ calls[pair] > 1 => pair \in overlapped
        /\ pair \notin overlapped =>
              calls[pair] + Cardinality({c \in ContextIds :
                                           /\ callers[c].pc = "compute"
                                           /\ callers[c].key = pair[1]
                                           /\ contexts[c] = pair[2]}) <= 1

\* both callers missed "x" in iteration 1, both ran the generator and both
\* stored
BothCallersComputed ==
    /\ calls[<<"x", 1>>] = 2
    /\ <<"x", 1>> \in overlapped
    /\ \A c \in ContextIds : callers[c].pc = "idle"
    /\ "x_iter_1" \in DOMAIN cache

\* C24: after any sequence of update_balance calls the ledger is consistent:
\* every history record belongs to an account the agent controls; earlier
\* history records are never removed, changed or reordered (the history
\* before a call is a prefix of the history after it); the first record of
\* every (account, contract) pair has a balance greater than 0; and for every
\* pair get_last_balance returns the balance of the most recently appended
\* record of the pair, none when the pair has no record.
LedgerStaysConsistent ==
    /\ \A n \in DOMAIN agent.balances_history :
          agent.balances_history[n].account \in agent.accounts
    /\ \A account \in Addresses, contract \in Contracts :
          LET records == get_balance_history(agent, Some(account), Some(contract)) IN
          IF records = << >>
          THEN get_last_balance(agent, account, contract) = None
          ELSE /\ records[1].balance > 0
               /\ get_last_balance(agent, account, contract)
                     = Some(records[Len(records)].balance)
    /\ \A account \in Addresses, contract \in Contracts, balance \in 0..MaxBalance,
          stamp \in Stamps :
          LET after == update_balance(agent, account, contract, balance,
                                      stamp[1], stamp[2])
          IN /\ Len(after.balances_history) >= Len(agent.balances_history)
             /\ \A n \in DOMAIN agent.balances_history :
                   after.balances_history[n] = agent.balances_history[n]

\* a pair's balance was read after a positive first record and a later zero
\* update that arrived with an earlier block
ZeroAfterPositiveRead ==
    /\ op.name = "get_last_balance"
    /\ op.result = Some(0)
    /\ LET records == get_balance_history(agent, Some(op.account), Some(op.contract)) IN
       /\ Len(records) = 2
       /\ records[1].balance > 0
       /\ records[2].balance = 0
       /\ records[2].block < records[1].block
====
